---- MODULE Spec2Model ----
(***************************************************************************)
(* Photo Map Organizer API (src/backend/main.py).                          *)
(*                                                                         *)
(* The state is the directory tree under BASE_PATH.  A file name is a      *)
(* sequence of one-character strings, a path is a sequence of names        *)
(* relative to BASE_PATH (<< >> is BASE_PATH itself).  Every HTTP handler  *)
(* is one action; moveFolder, which no handler reaches (see move_image),   *)
(* also has an action of its own, called with a Path destination as its    *)
(* body requires.  Spec handles requests one at a time, SpecUpload is the  *)
(* same for uploads of several files, and SpecConc runs two calls of       *)
(* moveFolder and sortDate one filesystem call at a time.                  *)
(***************************************************************************)
EXTENDS Integers, Sequences, FiniteSets, TLC

VARIABLES
    dirs,       \* set of paths that are directories
    files,      \* function: path of a regular file -> [mtime, data]
    clock,      \* wall clock used for modification times
    issued,     \* hex ids uuid.uuid4() has returned so far
    req,        \* the request (or call) handled last
    resp,       \* its response: [status, exc, body]
    prevReq,    \* the request handled before req
    prevDirs,   \* dirs as it was when req arrived
    prevFiles,  \* files as it was when req arrived
    steps,      \* number of requests handled
    procs       \* concurrent calls in flight (SpecConc only)

vars == <<dirs, files, clock, issued, req, resp, prevReq, prevDirs, prevFiles, steps, procs>>

\* ---------------------------------------------------------------- bounds
MaxSteps == 2
MaxUpload == 2

\* ---------------------------------------------------------------- strings
Digits == <<"0", "1", "2", "3", "4", "5", "6", "7", "8", "9">>
Uppers == <<"A", "B", "C", "D", "E", "F", "G", "H", "I", "J", "K", "L", "M",
            "N", "O", "P", "Q", "R", "S", "T", "U", "V", "W", "X", "Y", "Z">>
Lowers == <<"a", "b", "c", "d", "e", "f", "g", "h", "i", "j", "k", "l", "m",
            "n", "o", "p", "q", "r", "s", "t", "u", "v", "w", "x", "y", "z">>

IsDigitChar(c) == \E i \in 1..10 : Digits[i] = c

DigitVal(c) == CHOOSE d \in 0..9 : Digits[d + 1] = c

\* str.lower() on one character
LowerChar(c) ==
    IF \E i \in 1..26 : Uppers[i] = c
    THEN Lowers[CHOOSE i \in 1..26 : Uppers[i] = c]
    ELSE c

\* str.lower()
Lower(s) == [i \in 1..Len(s) |-> LowerChar(s[i])]

\* str.startswith(p)
StartsWith(s, p) == Len(s) >= Len(p) /\ SubSeq(s, 1, Len(p)) = p

\* str.isdigit(): non-empty and every character a digit
IsDigit(s) == Len(s) > 0 /\ \A i \in 1..Len(s) : IsDigitChar(s[i])

RECURSIVE NatStr(_)
\* str(n) for n >= 0
NatStr(n) == IF n < 10 THEN <<Digits[n + 1]>>
             ELSE NatStr(n \div 10) \o <<Digits[(n % 10) + 1]>>

\* str(n)
Str(n) == IF n < 0 THEN <<"-">> \o NatStr(0 - n) ELSE NatStr(n)

RECURSIVE ParseNat(_)
\* int(s) for a string of digits
ParseNat(s) == IF Len(s) = 0 THEN 0
               ELSE 10 * ParseNat(SubSeq(s, 1, Len(s) - 1)) + DigitVal(s[Len(s)])

\* Pad3 without the zero padding: f"{n}"
Pad3_NoPad(n) == NatStr(n)

\* f"{n:03d}" for n >= 0
Pad3(n) == LET s == NatStr(n)
           IN  IF Len(s) >= 3 THEN s
               ELSE [i \in 1..(3 - Len(s)) |-> "0"] \o s

\* str.rfind("."), 1-based, 0 when there is none
RFindDot(s) == IF \E i \in 1..Len(s) : s[i] = "."
               THEN CHOOSE i \in 1..Len(s) :
                        s[i] = "." /\ \A j \in (i + 1)..Len(s) : s[j] # "."
               ELSE 0

\* pathlib: PurePath.suffix
Suffix(name) == LET i == RFindDot(name)
                IN  IF 1 < i /\ i < Len(name) THEN SubSeq(name, i, Len(name)) ELSE << >>

\* pathlib: PurePath.stem
Stem(name) == LET i == RFindDot(name)
              IN  IF 1 < i /\ i < Len(name) THEN SubSeq(name, 1, i - 1) ELSE name

\* str.replace(" ", "_")
ReplaceSpaces(s) == [i \in 1..Len(s) |-> IF s[i] = " " THEN "_" ELSE s[i]]

\* ---------------------------------------------------------------- filesystem
BASE_PATH == << >>

Exists(D, F, p) == p \in D \/ p \in DOMAIN F
IsDir(D, F, p) == p \in D
IsFile(D, F, p) == p \in DOMAIN F

IsPrefix(p, q) == Len(p) <= Len(q) /\ SubSeq(q, 1, Len(p)) = p

\* Path.iterdir(): the entries directly in directory p
IterDir(D, F, p) == {q \in D \cup DOMAIN F : Len(q) = Len(p) + 1 /\ IsPrefix(p, q)}

Name(p) == p[Len(p)]

Prefixes(p) == {SubSeq(p, 1, k) : k \in 0..Len(p)}

\* Path.mkdir(parents=True, exist_ok=True): fails when a regular file is in the way
MkdirP(D, F, p) ==
    IF \E q \in Prefixes(p) : q \in DOMAIN F
    THEN [exc |-> "FileExistsError", dirs |-> D]
    ELSE [exc |-> "none", dirs |-> D \cup Prefixes(p)]

\* os.rename(src, dst) of a regular file or of a directory with what it holds;
\* a regular file at dst is replaced silently
Rename(D, F, src, dst) ==
    LET Moved(q) == dst \o SubSeq(q, Len(src) + 1, Len(q))
        under == {q \in DOMAIN F : IsPrefix(src, q)}
        dunder == {q \in D : IsPrefix(src, q)}
        keep == (DOMAIN F \ under) \ {dst}
    IN  [dirs |-> (D \ dunder) \cup {Moved(q) : q \in dunder},
         files |-> [q \in keep \cup {Moved(x) : x \in under} |->
                       IF q \in keep THEN F[q]
                       ELSE F[CHOOSE x \in under : Moved(x) = q]]]

\* ---------------------------------------------------------------- makeFolder
LocPath(country, city, year) == <<Str(year), country, city>>

makeFolder(D, F, country, city, year) == MkdirP(D, F, LocPath(country, city, year))

\* ---------------------------------------------------------------- sortDate
\* [f for f in path.iterdir() if f.is_file()]
RegularFiles(D, F, p) == {q \in IterDir(D, F, p) : IsFile(D, F, q)}

RECURSIVE OrdersOf(_, _)
\* the orders files.sort(key=getmtime) can leave a set S of files in: ascending
\* modification time, files of equal time in the order iterdir() gave them,
\* which is any order
OrdersOf(F, S) ==
    IF S = {} THEN {<< >>}
    ELSE UNION {{<<x>> \o t : t \in OrdersOf(F, S \ {x})} :
                x \in {y \in S : \A z \in S : F[y].mtime <= F[z].mtime}}

RECURSIVE SortFreePath(_, _, _, _, _, _)
\* the while loop of sortDate: the first path that does not exist among
\* NNN_name, NNN_1_name, NNN_2_name, ...; counter = 0 stands for the first
SortFreePath(D, F, p, i, name, counter) ==
    LET new_file_name == IF counter = 0 THEN Pad3(i) \o <<"_">> \o name
                         ELSE Pad3(i) \o <<"_">> \o NatStr(counter) \o <<"_">> \o name
        new_file_path == Append(p, new_file_name)
    IN  IF Exists(D, F, new_file_path)
        THEN SortFreePath(D, F, p, i, name, counter + 1)
        ELSE new_file_path

RECURSIVE SortLoop_NoSkip(_, _, _, _, _)
\* SortLoop without the test of line 301: every file is renamed
SortLoop_NoSkip(D, F, p, order, i) ==
    IF i > Len(order) THEN [dirs |-> D, files |-> F]
    ELSE LET new_file_path == SortFreePath(D, F, p, i, Name(order[i]), 0)
             r == Rename(D, F, order[i], new_file_path)
         IN  SortLoop_NoSkip(r.dirs, r.files, p, order, i + 1)

RECURSIVE SortLoop(_, _, _, _, _)
\* the for loop of sortDate from position i (1-based) on
SortLoop(D, F, p, order, i) ==
    IF i > Len(order) THEN [dirs |-> D, files |-> F]
    ELSE LET old_file_path == order[i]
         IN  IF StartsWith(Name(old_file_path), Pad3(i) \o <<"_">>)
             THEN SortLoop(D, F, p, order, i + 1)
             ELSE LET new_file_path == SortFreePath(D, F, p, i, Name(old_file_path), 0)
                      r == Rename(D, F, old_file_path, new_file_path)
                  IN  SortLoop(r.dirs, r.files, p, order, i + 1)

\* sortDate(path), the files taken in the given order
sortDate(D, F, p, order) ==
    IF ~Exists(D, F, p)
    THEN [exc |-> "FileNotFoundError", dirs |-> D, files |-> F]
    ELSE LET r == SortLoop(D, F, p, order, 1)
         IN  [exc |-> "none", dirs |-> r.dirs, files |-> r.files]

\* ---------------------------------------------------------------- moveFolder
RECURSIVE MoveFreePath_AfterExt(_, _, _, _, _)
\* MoveFreePath with the counter appended after the extension
MoveFreePath_AfterExt(D, F, destination_folder, imageId, counter) ==
    LET new_name == IF counter = 0 THEN imageId
                    ELSE imageId \o <<"_">> \o NatStr(counter)
        destination_path == Append(destination_folder, new_name)
    IN  IF Exists(D, F, destination_path)
        THEN MoveFreePath_AfterExt(D, F, destination_folder, imageId, counter + 1)
        ELSE destination_path

RECURSIVE MoveFreePath(_, _, _, _, _)
\* the while loop of moveFolder: imageId, then stem_1.ext, stem_2.ext, ...
MoveFreePath(D, F, destination_folder, imageId, counter) ==
    LET new_name == IF counter = 0 THEN imageId
                    ELSE Stem(imageId) \o <<"_">> \o NatStr(counter) \o Suffix(imageId)
        destination_path == Append(destination_folder, new_name)
    IN  IF Exists(D, F, destination_path)
        THEN MoveFreePath(D, F, destination_folder, imageId, counter + 1)
        ELSE destination_path

\* moveFolder(imageId, destination_folder, sourceFolder)
moveFolder(D, F, imageId, destination_folder, sourceFolder) ==
    LET source_path == Append(sourceFolder, imageId)
        mk == IF ~Exists(D, F, destination_folder)
              THEN MkdirP(D, F, destination_folder)
              ELSE [exc |-> "none", dirs |-> D]
        D1 == mk.dirs
        destination_path == MoveFreePath(D1, F, destination_folder, imageId, 0)
    IN  IF mk.exc # "none"
        THEN [exc |-> mk.exc, dirs |-> D, files |-> F]
        ELSE IF ~Exists(D1, F, source_path)
        THEN [exc |-> "FileNotFoundError", dirs |-> D1, files |-> F]
        ELSE LET r == Rename(D1, F, source_path, destination_path)
             IN  [exc |-> "none", dirs |-> r.dirs, files |-> r.files]

\* ---------------------------------------------------------------- viewFolder
ImageSuffixes == {<<".", "j", "p", "g">>, <<".", "j", "p", "e", "g">>,
                  <<".", "p", "n", "g">>, <<".", "g", "i", "f">>,
                  <<".", "b", "m", "p">>, <<".", "w", "e", "b", "p">>}

\* IsListed without .lower()
IsListed_CaseSensitive(D, F, q) == IsFile(D, F, q) /\ Suffix(Name(q)) \in ImageSuffixes

\* the filter of viewFolder
IsListed(D, F, q) == IsFile(D, F, q) /\ Lower(Suffix(Name(q))) \in ImageSuffixes

\* viewFolder(country, city, year): the list as the set of its entries (the
\* order of iterdir() is unspecified, and names in one folder are distinct)
viewFolder(D, F, country, city, year) ==
    LET folder_path == LocPath(country, city, year)
    IN  IF Exists(D, F, folder_path) /\ IsDir(D, F, folder_path)
        THEN {[id |-> Name(q), name |-> Name(q), year |-> year, location |-> city,
               file_size |-> Len(F[q].data), created_at |-> F[q].mtime] :
              q \in {x \in IterDir(D, F, folder_path) : IsListed(D, F, x)}}
        ELSE {}

\* ---------------------------------------------------------------- get_all_pins
\* year_dir.is_dir() and year_dir.name.isdigit()
IsYearDir(D, F, q) == IsDir(D, F, q) /\ IsDigit(Name(q))

\* the city directories the three nested loops of get_all_pins reach
PinDirs(D, F) ==
    {q \in D : /\ Len(q) = 3
               /\ IsYearDir(D, F, SubSeq(q, 1, 1))
               /\ IsDir(D, F, SubSeq(q, 1, 2))}

\* the PinData appended for city directory q
PinOf(D, F, q) ==
    LET year == ParseNat(q[1])
    IN  [id |-> ReplaceSpaces(q[2] \o <<"_">> \o q[3] \o <<"_">> \o Str(year)),
         country |-> q[2], city |-> q[3], lat |-> 0, lng |-> 0, year |-> year,
         imageCount |-> Cardinality({f \in IterDir(D, F, q) : IsFile(D, F, f)})]

\* get_all_pins(): the list as a function from the city directory visited to
\* the entry appended for it (the order of iterdir() is unspecified)
get_all_pins(D, F) ==
    IF ~Exists(D, F, BASE_PATH) THEN << >>
    ELSE [q \in PinDirs(D, F) |-> PinOf(D, F, q)]

\* ---------------------------------------------------------------- inputs
N_a_jpg == <<"a", ".", "j", "p", "g">>
N_a_1_jpg == <<"a", "_", "1", ".", "j", "p", "g">>
N_b_txt == <<"b", ".", "t", "x", "t">>
N_c_PNG == <<"c", ".", "P", "N", "G">>
N_001_b_txt == <<"0", "0", "1", "_", "b", ".", "t", "x", "t">>
N_p_JPG == <<"p", ".", "J", "P", "G">>
N_n_txt == <<"n", ".", "t", "x", "t">>

Years == {0 - 1, 7}
Countries == {<<"F">>}
Cities == {<<"P">>}
Locations == {[country |-> c, city |-> t, year |-> y] : c \in Countries, t \in Cities, y \in Years}
PathOf(l) == LocPath(l.country, l.city, l.year)

LocA == <<<<"7">>, <<"F">>, <<"P">>>>
LocB == <<<<"-", "1">>, <<"F">>, <<"P">>>>
LocS == <<<<"s", "t", "a", "t", "i", "c">>, <<"F">>, <<"P">>>>

\* what folder 7/F/P and folder static/F/P may hold when the service starts
SeedA == {[name |-> N_b_txt, mtime |-> 1, data |-> << >>],
          [name |-> N_a_jpg, mtime |-> 2, data |-> <<1>>],
          [name |-> N_c_PNG, mtime |-> 2, data |-> <<1, 2>>],
          [name |-> N_001_b_txt, mtime |-> 3, data |-> <<2>>],
          [name |-> N_a_1_jpg, mtime |-> 5, data |-> << >>]}
SeedS == {[name |-> N_a_jpg, mtime |-> 4, data |-> <<3>>]}

\* names a client asks for
MoveIds == {N_a_jpg}
ServeNames == {N_a_jpg}
SourceFolders == {LocA, LocS}
HttpSources == {LocA}

\* files a client uploads: [filename, data]
UploadPool == {[filename |-> N_p_JPG, data |-> <<1, 2, 3>>],
               [filename |-> N_n_txt, data |-> << >>]}
UploadLists == UNION {[1..n -> UploadPool] : n \in 1..MaxUpload}
SingleUploads == {<<u>> : u \in UploadPool}

\* values of uuid.uuid4().hex
HexIds == {<<"0", "a">>, <<"1", "b">>, <<"2", "c">>}

NoReq == [op |-> "none", country |-> << >>, city |-> << >>, year |-> 0,
          imageId |-> << >>, src |-> << >>, uploads |-> << >>]

Procs == {"p1", "p2"}

\* a call that has not started: pc is the line the call is at, the other fields
\* its arguments and locals; alone records that no other call was in flight
\* when it started
Idle == [pc |-> "idle", op |-> "none", imageId |-> << >>, dst |-> << >>, src |-> << >>,
         path |-> << >>, order |-> << >>, i |-> 0, target |-> << >>, counter |-> 0,
         exc |-> "none", alone |-> TRUE]

\* ---------------------------------------------------------------- Init
\* lines 25-30: BASE_PATH and BASE_PATH/static exist once the module is loaded;
\* the tree may already hold folders and files of earlier runs
SeedTree(sa, ss, hasA, hasB) ==
    [dirs |-> {BASE_PATH} \cup Prefixes(LocS)
              \cup (IF hasA THEN Prefixes(LocA) ELSE {})
              \cup (IF hasB THEN Prefixes(LocB) ELSE {}),
     files |-> [q \in {<<<<"3">>>>} \cup {Append(LocA, x.name) : x \in sa}
                     \cup {Append(LocS, x.name) : x \in ss} |->
                  IF q = <<<<"3">>>> THEN [mtime |-> 0, data |-> << >>]
                  ELSE IF IsPrefix(LocA, q)
                  THEN LET x == CHOOSE x \in sa : x.name = Name(q)
                       IN  [mtime |-> x.mtime, data |-> x.data]
                  ELSE LET x == CHOOSE x \in ss : x.name = Name(q)
                       IN  [mtime |-> x.mtime, data |-> x.data]]]

Init ==
    \E sa \in SUBSET SeedA, ss \in SUBSET SeedS, hasA \in BOOLEAN :
        /\ (~hasA => sa = {})
        /\ Cardinality(sa) <= 2
        /\ dirs = SeedTree(sa, ss, hasA, FALSE).dirs
        /\ files = SeedTree(sa, ss, hasA, FALSE).files
        /\ clock = 6
        /\ issued = {}
        /\ req = NoReq
        /\ resp = [status |-> 0, exc |-> "none", body |-> {}]
        /\ prevReq = NoReq
        /\ prevDirs = dirs
        /\ prevFiles = files
        /\ steps = 0
        /\ procs = [p \in Procs |-> Idle]

\* ---------------------------------------------------------------- handlers
\* one request handled: the request, its response and the tree it leaves
Handled(r, rs, D2, F2) ==
    /\ steps < MaxSteps
    /\ req' = r
    /\ resp' = rs
    /\ prevReq' = req
    /\ prevDirs' = dirs
    /\ prevFiles' = files
    /\ dirs' = D2
    /\ files' = F2
    /\ steps' = steps + 1
    /\ UNCHANGED procs

Http(status, exc, body) == [status |-> status, exc |-> exc, body |-> body]

\* POST /api/create-folder
create_folder ==
    \E l \in Locations :
        LET r == [NoReq EXCEPT !.op = "create_folder", !.country = l.country,
                               !.city = l.city, !.year = l.year]
            mk == makeFolder(dirs, files, l.country, l.city, l.year)
        IN  /\ Handled(r, IF mk.exc = "none" THEN Http(200, "none", PathOf(l))
                          ELSE Http(500, mk.exc, {}), mk.dirs, files)
            /\ UNCHANGED <<clock, issued>>

\* GET /api/get-images/{year}/{country}/{city}
get_images ==
    \E l \in Locations :
        LET r == [NoReq EXCEPT !.op = "get_images", !.country = l.country,
                               !.city = l.city, !.year = l.year]
        IN  /\ Handled(r, Http(200, "none", viewFolder(dirs, files, l.country, l.city, l.year)),
                       dirs, files)
            /\ UNCHANGED <<clock, issued>>

\* the parameters of moveFolder, and the arguments move_image passes it
MoveFolderParams == 3
MoveImageArgs == 5

\* POST /api/move-image: the call moveFolder(imageId, country, city, year,
\* sourceFolder) raises TypeError before moveFolder runs, which the handler's
\* `except Exception` turns into 500
move_image ==
    \E l \in Locations, imageId \in MoveIds, src \in HttpSources :
        LET r == [NoReq EXCEPT !.op = "move_image", !.country = l.country,
                               !.city = l.city, !.year = l.year,
                               !.imageId = imageId, !.src = src]
            call == IF MoveImageArgs # MoveFolderParams
                    THEN [exc |-> "TypeError", dirs |-> dirs, files |-> files]
                    ELSE moveFolder(dirs, files, imageId, PathOf(l), src)
        IN  /\ Handled(r, IF call.exc = "none" THEN Http(200, "none", {})
                          ELSE IF call.exc = "FileNotFoundError"
                          THEN Http(404, call.exc, {})
                          ELSE Http(500, call.exc, {}),
                       call.dirs, call.files)
            /\ UNCHANGED <<clock, issued>>

\* moveFolder called as its body is written: destination_folder a Path
moveFolderCall ==
    \E dst \in Locations, imageId \in MoveIds, src \in SourceFolders :
        LET r == [NoReq EXCEPT !.op = "moveFolder", !.country = dst.country,
                               !.city = dst.city, !.year = dst.year,
                               !.imageId = imageId, !.src = src]
            call == moveFolder(dirs, files, imageId, PathOf(dst), src)
        IN  /\ Handled(r, Http(0, call.exc, {}), call.dirs, call.files)
            /\ UNCHANGED <<clock, issued>>

\* POST /api/sort-folder: the HTTPException(404) is raised inside the try and
\* caught by its `except Exception`
sort_folder_by_date ==
    \E l \in Locations :
        LET r == [NoReq EXCEPT !.op = "sort_folder", !.country = l.country,
                               !.city = l.city, !.year = l.year]
            folder_path == PathOf(l)
        IN  IF ~Exists(dirs, files, folder_path)
            THEN /\ Handled(r, Http(500, "HTTPException", {}), dirs, files)
                 /\ UNCHANGED <<clock, issued>>
            ELSE IF ~IsDir(dirs, files, folder_path)
            THEN /\ Handled(r, Http(500, "NotADirectoryError", {}), dirs, files)
                 /\ UNCHANGED <<clock, issued>>
            ELSE \E order \in OrdersOf(files, RegularFiles(dirs, files, folder_path)) :
                    LET call == sortDate(dirs, files, folder_path, order)
                    IN  /\ Handled(r, IF call.exc = "none" THEN Http(200, "none", {})
                                      ELSE Http(500, call.exc, {}),
                                   call.dirs, call.files)
                        /\ UNCHANGED <<clock, issued>>

RECURSIVE UploadLoop_NoExt(_, _, _, _, _, _, _)
\* UploadLoop saving under the hex id alone, the extension dropped
UploadLoop_NoExt(D, F, folder_path, ups, ids, now, i) ==
    IF i > Len(ups) THEN [exc |-> "none", files |-> F]
    ELSE LET file_path == Append(folder_path, ids[i])
         IN  IF IsDir(D, F, file_path)
             THEN [exc |-> "IsADirectoryError", files |-> F]
             ELSE UploadLoop_NoExt(D,
                             [q \in DOMAIN F \cup {file_path} |->
                                 IF q = file_path
                                 THEN [mtime |-> now, data |-> ups[i].data]
                                 ELSE F[q]],
                             folder_path, ups, ids, now, i + 1)

RECURSIVE UploadLoop(_, _, _, _, _, _, _)
\* the for loop of upload_images from file i on; ids[i] is the value of
\* uuid.uuid4().hex for file i; open(path, "wb") creates or truncates
UploadLoop(D, F, folder_path, ups, ids, now, i) ==
    IF i > Len(ups) THEN [exc |-> "none", files |-> F]
    ELSE LET file_extension == Suffix(ups[i].filename)
             unique_filename == ids[i] \o file_extension
             file_path == Append(folder_path, unique_filename)
         IN  IF IsDir(D, F, file_path)
             THEN [exc |-> "IsADirectoryError", files |-> F]
             ELSE UploadLoop(D,
                             [q \in DOMAIN F \cup {file_path} |->
                                 IF q = file_path
                                 THEN [mtime |-> now, data |-> ups[i].data]
                                 ELSE F[q]],
                             folder_path, ups, ids, now, i + 1)

\* uuid.uuid4(): n values, none of them returned before
Uuid4s(n) == {ids \in [1..n -> HexIds \ issued] :
                 \A i, j \in 1..n : i # j => ids[i] # ids[j]}

\* POST /api/upload-images, the files of the request drawn from L
UploadHandler(L) ==
    \E l \in Locations, ups \in L :
        \E ids \in Uuid4s(Len(ups)) :
            LET r == [NoReq EXCEPT !.op = "upload_images", !.country = l.country,
                                   !.city = l.city, !.year = l.year, !.uploads = ups]
                mk == makeFolder(dirs, files, l.country, l.city, l.year)
                up == UploadLoop(mk.dirs, files, PathOf(l), ups, ids, clock, 1)
            IN  /\ IF mk.exc # "none"
                   THEN /\ Handled(r, Http(500, mk.exc, << >>), dirs, files)
                        /\ UNCHANGED issued
                   ELSE /\ Handled(r, IF up.exc = "none"
                                      THEN Http(200, "none",
                                                [i \in 1..Len(ups) |-> ids[i] \o Suffix(ups[i].filename)])
                                      ELSE Http(500, up.exc, << >>),
                                   mk.dirs, up.files)
                        /\ issued' = issued \cup {ids[i] : i \in 1..Len(ups)}
                /\ clock' = clock + 1

\* an upload of one file
upload_images == UploadHandler(SingleUploads)

\* an upload of up to MaxUpload files
upload_many == UploadHandler(UploadLists)

\* GET /api/get-all-pins
get_all_pins_handler ==
    /\ Handled([NoReq EXCEPT !.op = "get_all_pins"],
               Http(200, "none", get_all_pins(dirs, files)), dirs, files)
    /\ UNCHANGED <<clock, issued>>

\* GET /api/serve-image/{year}/{country}/{city}/{filename}: the
\* HTTPException(404) is raised inside the try and caught by its `except Exception`
serve_image ==
    \E l \in Locations, filename \in ServeNames :
        LET r == [NoReq EXCEPT !.op = "serve_image", !.country = l.country,
                               !.city = l.city, !.year = l.year, !.imageId = filename]
            file_path == Append(PathOf(l), filename)
        IN  /\ Handled(r, IF ~Exists(dirs, files, file_path)
                          THEN Http(500, "HTTPException", {})
                          ELSE IF IsFile(dirs, files, file_path)
                          THEN Http(200, "none", files[file_path].data)
                          ELSE Http(500, "RuntimeError", {}),
                       dirs, files)
            /\ UNCHANGED <<clock, issued>>

Next ==
    \/ create_folder
    \/ get_images
    \/ sort_folder_by_date
    \/ serve_image
    \/ move_image
    \/ moveFolderCall
    \/ upload_images
    \/ get_all_pins_handler

Spec == Init /\ [][Next]_vars

\* uploads of several files at once, and the listing of what they leave
InitUpload ==
    \E sa \in {{}, {x \in SeedA : x.name = N_b_txt}}, hasA \in BOOLEAN :
        /\ (~hasA => sa = {})
        /\ dirs = SeedTree(sa, {}, hasA, FALSE).dirs
        /\ files = SeedTree(sa, {}, hasA, FALSE).files
        /\ clock = 6
        /\ issued = {}
        /\ req = NoReq
        /\ resp = [status |-> 0, exc |-> "none", body |-> {}]
        /\ prevReq = NoReq
        /\ prevDirs = dirs
        /\ prevFiles = files
        /\ steps = 0
        /\ procs = [p \in Procs |-> Idle]

NextUpload == create_folder \/ upload_many \/ get_images

SpecUpload == InitUpload /\ [][NextUpload]_vars

\* ---------------------------------------------------------------- concurrent calls
\* Two requests in flight at once (spec section 5: no locking): each call of
\* moveFolder or sortDate advances one filesystem call at a time.
ConcSources == {LocA, LocS}
ConcFolders == {LocA, LocB}

InitConc ==
    \E withB \in BOOLEAN :
        /\ dirs = SeedTree({x \in SeedA : x.name \in {N_a_jpg, N_b_txt}}, SeedS, TRUE, withB).dirs
        /\ files = SeedTree({x \in SeedA : x.name \in {N_a_jpg, N_b_txt}}, SeedS, TRUE, withB).files
        /\ clock = 6
        /\ issued = {}
        /\ req = NoReq
        /\ resp = [status |-> 0, exc |-> "none", body |-> {}]
        /\ prevReq = NoReq
        /\ prevDirs = dirs
        /\ prevFiles = files
        /\ steps = 0
        /\ procs = [p \in Procs |-> Idle]

InFlight(p) == procs[p].pc \notin {"idle", "done"}

Others == <<clock, issued, req, resp, prevReq, prevDirs, prevFiles, steps>>

Goto(p, st) == procs' = [procs EXCEPT ![p] = st]

\* a request for moveFolder arrives
StartMove(p) ==
    /\ procs[p].pc = "idle"
    /\ \E imageId \in MoveIds, src \in ConcSources :
          Goto(p, [Idle EXCEPT !.pc = "move_325", !.op = "moveFolder", !.imageId = imageId,
                               !.dst = LocB, !.src = src,
                               !.alone = \A o \in Procs \ {p} : ~InFlight(o)])
    /\ UNCHANGED <<dirs, files, Others>>

\* line 325: if not destination_folder.exists()
Move325(p) ==
    /\ procs[p].pc = "move_325"
    /\ Goto(p, [procs[p] EXCEPT !.pc = IF Exists(dirs, files, procs[p].dst)
                                       THEN "move_332" ELSE "move_326",
                                !.target = Append(procs[p].dst, procs[p].imageId),
                                !.counter = 1])
    /\ UNCHANGED <<dirs, files, Others>>

\* line 326: destination_folder.mkdir(parents=True, exist_ok=True)
Move326(p) ==
    /\ procs[p].pc = "move_326"
    /\ LET mk == MkdirP(dirs, files, procs[p].dst)
       IN  /\ dirs' = mk.dirs
           /\ Goto(p, IF mk.exc = "none" THEN [procs[p] EXCEPT !.pc = "move_332"]
                      ELSE [procs[p] EXCEPT !.pc = "done", !.exc = mk.exc])
    /\ UNCHANGED <<files, Others>>

\* MoveLoopStep without the test: the first name is taken as free
MoveLoopStep_NoCheck(D, F, st) == [st EXCEPT !.pc = "move_339"]

\* lines 332-336: one test of `while destination_path.exists()`, and the loop
\* body when it holds
MoveLoopStep(D, F, st) ==
    IF Exists(D, F, st.target)
    THEN [st EXCEPT !.target = Append(st.dst, Stem(st.imageId) \o <<"_">>
                                              \o NatStr(st.counter) \o Suffix(st.imageId)),
                    !.counter = st.counter + 1]
    ELSE [st EXCEPT !.pc = "move_339"]

Move332(p) ==
    /\ procs[p].pc = "move_332"
    /\ Goto(p, MoveLoopStep(dirs, files, procs[p]))
    /\ UNCHANGED <<dirs, files, Others>>

\* lines 339-340: if not source_path.exists(): raise FileNotFoundError
Move339(p) ==
    /\ procs[p].pc = "move_339"
    /\ Goto(p, IF Exists(dirs, files, Append(procs[p].src, procs[p].imageId))
               THEN [procs[p] EXCEPT !.pc = "move_342"]
               ELSE [procs[p] EXCEPT !.pc = "done", !.exc = "FileNotFoundError"])
    /\ UNCHANGED <<dirs, files, Others>>

\* line 342: shutil.move(source_path, destination_path), an os.rename
Move342(p) ==
    /\ procs[p].pc = "move_342"
    /\ LET source_path == Append(procs[p].src, procs[p].imageId)
       IN  IF ~Exists(dirs, files, source_path)
           THEN /\ Goto(p, [procs[p] EXCEPT !.pc = "done", !.exc = "FileNotFoundError"])
                /\ UNCHANGED <<dirs, files>>
           ELSE LET r == Rename(dirs, files, source_path, procs[p].target)
                IN  /\ dirs' = r.dirs
                    /\ files' = r.files
                    /\ Goto(p, [procs[p] EXCEPT !.pc = "done"])
    /\ UNCHANGED Others

\* a request for sortDate arrives
StartSort(p) ==
    /\ procs[p].pc = "idle"
    /\ \E folder \in ConcFolders :
          Goto(p, [Idle EXCEPT !.pc = "sort_292", !.op = "sortDate", !.path = folder,
                               !.alone = \A o \in Procs \ {p} : ~InFlight(o)])
    /\ UNCHANGED <<dirs, files, Others>>

\* lines 292-293: if not path.exists(): raise FileNotFoundError
Sort292(p) ==
    /\ procs[p].pc = "sort_292"
    /\ Goto(p, IF Exists(dirs, files, procs[p].path)
               THEN [procs[p] EXCEPT !.pc = "sort_295"]
               ELSE [procs[p] EXCEPT !.pc = "done", !.exc = "FileNotFoundError"])
    /\ UNCHANGED <<dirs, files, Others>>

\* lines 295-296: list the regular files and sort them by modification time
Sort295(p) ==
    /\ procs[p].pc = "sort_295"
    /\ \E order \in OrdersOf(files, RegularFiles(dirs, files, procs[p].path)) :
          Goto(p, [procs[p] EXCEPT !.pc = "sort_299", !.order = order, !.i = 1])
    /\ UNCHANGED <<dirs, files, Others>>

\* lines 299-305: the next file of the loop, its prefix test and first target
Sort299(p) ==
    /\ procs[p].pc = "sort_299"
    /\ LET st == procs[p]
       IN  Goto(p, IF st.i > Len(st.order) THEN [st EXCEPT !.pc = "done"]
                   ELSE IF StartsWith(Name(st.order[st.i]), Pad3(st.i) \o <<"_">>)
                   THEN [st EXCEPT !.i = st.i + 1]
                   ELSE [st EXCEPT !.pc = "sort_306", !.counter = 1,
                                   !.target = Append(st.path, Pad3(st.i) \o <<"_">>
                                                              \o Name(st.order[st.i]))])
    /\ UNCHANGED <<dirs, files, Others>>

\* lines 306-309: one test of `while new_file_path.exists()`, and the loop body
\* when it holds
SortLoopStep(D, F, st) ==
    IF Exists(D, F, st.target)
    THEN [st EXCEPT !.target = Append(st.path, Pad3(st.i) \o <<"_">> \o NatStr(st.counter)
                                               \o <<"_">> \o Name(st.order[st.i])),
                    !.counter = st.counter + 1]
    ELSE [st EXCEPT !.pc = "sort_311"]

Sort306(p) ==
    /\ procs[p].pc = "sort_306"
    /\ Goto(p, SortLoopStep(dirs, files, procs[p]))
    /\ UNCHANGED <<dirs, files, Others>>

\* line 311: os.rename(old_file_path, new_file_path)
Sort311(p) ==
    /\ procs[p].pc = "sort_311"
    /\ LET st == procs[p]
       IN  IF ~Exists(dirs, files, st.order[st.i])
           THEN /\ Goto(p, [st EXCEPT !.pc = "done", !.exc = "FileNotFoundError"])
                /\ UNCHANGED <<dirs, files>>
           ELSE LET r == Rename(dirs, files, st.order[st.i], st.target)
                IN  /\ dirs' = r.dirs
                    /\ files' = r.files
                    /\ Goto(p, [st EXCEPT !.pc = "sort_299", !.i = st.i + 1])
    /\ UNCHANGED Others

NextConc ==
    \/ \E p \in Procs : StartMove(p)
    \/ \E p \in Procs : Move325(p)
    \/ \E p \in Procs : Move326(p)
    \/ \E p \in Procs : Move332(p)
    \/ \E p \in Procs : Move339(p)
    \/ \E p \in Procs : Move342(p)
    \/ \E p \in Procs : StartSort(p)
    \/ \E p \in Procs : Sort292(p)
    \/ \E p \in Procs : Sort295(p)
    \/ \E p \in Procs : Sort299(p)
    \/ \E p \in Procs : Sort306(p)
    \/ \E p \in Procs : Sort311(p)

SpecConc == InitConc /\ [][NextConc]_vars

\* ---------------------------------------------------------------- properties
ReqFolder == LocPath(req.country, req.city, req.year)
ReqSource == Append(req.src, req.imageId)

\* the files directly in folder p, read off the domain of F
FilesIn(F, p) == {q \in DOMAIN F : Len(q) = Len(p) + 1 /\ SubSeq(q, 1, Len(p)) = p}

ImageExts == {<<"j", "p", "g">>, <<"j", "p", "e", "g">>, <<"p", "n", "g">>,
              <<"g", "i", "f">>, <<"b", "m", "p">>, <<"w", "e", "b", "p">>}

\* name is <stem>.<ext> with a non-empty stem and ext an image extension in any case
HasImageExt(name) ==
    \E e \in ImageExts :
        /\ Len(name) > Len(e) + 1
        /\ name[Len(name) - Len(e)] = "."
        /\ Lower(SubSeq(name, Len(name) - Len(e) + 1, Len(name))) = e

\* C1: a move-image request whose file exists in sourceFolder succeeds, and
\* afterwards the file is absent from sourceFolder and present in the destination
C1_MoveImageSucceeds ==
    (req.op = "move_image" /\ IsFile(prevDirs, prevFiles, ReqSource)) =>
        /\ resp.status = 200
        /\ ~Exists(dirs, files, ReqSource)
        /\ \E q \in FilesIn(files, ReqFolder) :
              q \notin DOMAIN prevFiles /\ files[q] = prevFiles[ReqSource]

\* C2: moveFolder of an imageId that is not in sourceFolder fails with
\* FileNotFoundError and changes nothing: no directory and no file is created,
\* renamed or removed
C2_MissingSourceChangesNothing ==
    (req.op = "moveFolder" /\ ~Exists(prevDirs, prevFiles, ReqSource)) =>
        /\ resp.exc = "FileNotFoundError"
        /\ dirs = prevDirs
        /\ files = prevFiles

\* C3: move-image with a missing source file, sort-folder with a missing folder
\* and serve-image with a missing file each answer 404
C3_NotFoundIs404 ==
    /\ (req.op = "move_image" /\ ~Exists(prevDirs, prevFiles, ReqSource)) => resp.status = 404
    /\ (req.op = "sort_folder" /\ ~Exists(prevDirs, prevFiles, ReqFolder)) => resp.status = 404
    /\ (req.op = "serve_image" /\ ~Exists(prevDirs, prevFiles, Append(ReqFolder, req.imageId)))
          => resp.status = 404

\* <stem>_<k><ext>
ConflictName(imageId, k) == Stem(imageId) \o <<"_">> \o NatStr(k) \o Suffix(imageId)

\* the least k >= 1 whose <stem>_<k><ext> is free in folder p
FirstFreeK(D, F, p, imageId) ==
    CHOOSE k \in 1..(Cardinality(IterDir(D, F, p)) + 1) :
        /\ ~Exists(D, F, Append(p, ConflictName(imageId, k)))
        /\ \A j \in 1..(k - 1) : Exists(D, F, Append(p, ConflictName(imageId, j)))

\* moveFolder is called for a file that exists, into a folder that holds a file
\* of the same name
MoveConflictCase ==
    /\ req.op = "moveFolder"
    /\ IsFile(prevDirs, prevFiles, ReqSource)
    /\ IsFile(prevDirs, prevFiles, Append(ReqFolder, req.imageId))

\* the moved file is under the first free <stem>_<k><ext>, and every file the
\* destination held is still there, name and content
MovedUnderFirstFreeName ==
    LET target == Append(ReqFolder,
                         ConflictName(req.imageId,
                                      FirstFreeK(prevDirs, prevFiles, ReqFolder, req.imageId)))
    IN  /\ resp.exc = "none"
        /\ target \notin DOMAIN prevFiles
        /\ target \in DOMAIN files
        /\ files[target] = prevFiles[ReqSource]
        /\ \A q \in FilesIn(prevFiles, ReqFolder) : q \in DOMAIN files /\ files[q] = prevFiles[q]

\* C4 as stated: on a name conflict the moved file takes the first free
\* <stem>_<k><ext> and every file of the destination stays as it was
C4_ConflictKeepsBoth == MoveConflictCase => MovedUnderFirstFreeName

\* C4 amended: the same, when the source folder is not the destination folder
C4_ConflictKeepsBothOtherFolder ==
    (MoveConflictCase /\ req.src # ReqFolder) => MovedUnderFirstFreeName

\* C4 witness: a move into another folder where both a.jpg and a_1.jpg are taken
C4_Witness ==
    /\ MoveConflictCase
    /\ req.src # ReqFolder
    /\ resp.exc = "none"
    /\ Append(ReqFolder, ConflictName(req.imageId, 1)) \in DOMAIN prevFiles
    /\ Append(ReqFolder, ConflictName(req.imageId, 2)) \in DOMAIN files

\* 1 + the number of files of S older than q
Rank(F, S, q) == 1 + Cardinality({z \in S : F[z].mtime < F[q].mtime})

\* r written with three digits
ThreeDigits(r) == <<Digits[((r \div 100) % 10) + 1], Digits[((r \div 10) % 10) + 1],
                    Digits[(r % 10) + 1]>>

DistinctMtimes(F, S) == \A x, y \in S : x # y => F[x].mtime # F[y].mtime

\* where the claim says file q of folder p goes: <rank, 3 digits>_<name>
SortTarget(F, p, q) == Append(p, ThreeDigits(Rank(F, FilesIn(F, p), q)) \o <<"_">> \o Name(q))

\* the folder of the request exists, its files have distinct modification times,
\* none carries its target prefix and no target name is taken
SortCase ==
    /\ req.op = "sort_folder"
    /\ IsDir(prevDirs, prevFiles, ReqFolder)
    /\ DistinctMtimes(prevFiles, FilesIn(prevFiles, ReqFolder))
    /\ \A q \in FilesIn(prevFiles, ReqFolder) :
          /\ ~StartsWith(Name(q), ThreeDigits(Rank(prevFiles, FilesIn(prevFiles, ReqFolder), q))
                                  \o <<"_">>)
          /\ ~Exists(prevDirs, prevFiles, SortTarget(prevFiles, ReqFolder, q))

\* C5: sorting renames the file with the i-th smallest modification time to
\* 00i_<name>, for every file of the folder
C5_SortPrefixesByMtime ==
    SortCase =>
        /\ resp.status = 200
        /\ FilesIn(files, ReqFolder) =
              {SortTarget(prevFiles, ReqFolder, q) : q \in FilesIn(prevFiles, ReqFolder)}
        /\ \A q \in FilesIn(prevFiles, ReqFolder) :
              files[SortTarget(prevFiles, ReqFolder, q)] = prevFiles[q]

\* C5 witness: a folder of three files has been sorted
C5_Witness ==
    /\ SortCase
    /\ resp.status = 200
    /\ Cardinality(FilesIn(prevFiles, ReqFolder)) = 3

\* the request is a sort of the folder the request before it sorted
SortAgainCase ==
    /\ req.op = "sort_folder"
    /\ prevReq.op = "sort_folder"
    /\ LocPath(prevReq.country, prevReq.city, prevReq.year) = ReqFolder
    /\ resp.status = 200
    /\ DistinctMtimes(prevFiles, FilesIn(prevFiles, ReqFolder))

\* C6: sorting a folder that was just sorted renames nothing
C6_SortAgainRenamesNothing == SortAgainCase => (files = prevFiles /\ dirs = prevDirs)

\* C6 witness: the second sort of a folder of two or more files
C6_Witness ==
    /\ SortAgainCase
    /\ Cardinality(FilesIn(prevFiles, ReqFolder)) >= 2
    /\ \E q \in FilesIn(files, ReqFolder) : StartsWith(Name(q), <<"0", "0", "2", "_">>)

\* saved is a hex id followed by the extension of orig
GeneratedName(saved, orig) ==
    \E h \in HexIds, k \in 1..Len(orig) :
        /\ orig[k] = "."
        /\ \A j \in (k + 1)..Len(orig) : orig[j] # "."
        /\ saved = h \o SubSeq(orig, k, Len(orig))

\* image files are uploaded to a location that lists no image
UploadCase ==
    /\ req.op = "upload_images"
    /\ \A i \in 1..Len(req.uploads) : HasImageExt(req.uploads[i].filename)
    /\ viewFolder(prevDirs, prevFiles, req.country, req.city, req.year) = {}

\* C7: after uploading N image files to a location without images, listing it
\* gives N entries, each under a generated name no other file of the folder
\* has, each with the size of what was uploaded
C7_UploadThenList ==
    UploadCase =>
        LET entries == viewFolder(dirs, files, req.country, req.city, req.year)
            N == Len(req.uploads)
        IN  /\ resp.status = 200
            /\ Cardinality(entries) = N
            /\ Len(resp.body) = N
            /\ \A i, j \in 1..N : i # j => resp.body[i] # resp.body[j]
            /\ \A i \in 1..N :
                  /\ GeneratedName(resp.body[i], req.uploads[i].filename)
                  /\ ~Exists(prevDirs, prevFiles, Append(ReqFolder, resp.body[i]))
                  /\ \E e \in entries : /\ e.name = resp.body[i]
                                        /\ e.file_size = Len(req.uploads[i].data)

\* C7 witness: two image files uploaded to a location that did not exist
C7_Witness ==
    /\ UploadCase
    /\ resp.status = 200
    /\ Len(req.uploads) = 2
    /\ ReqFolder \notin prevDirs

ParsesAsInt(s) == IsDigit(s) \/ (Len(s) > 1 /\ s[1] \in {"-", "+"} /\ IsDigit(Tail(s)))

IntOf(s) == IF s[1] = "-" THEN 0 - ParseNat(Tail(s))
            ELSE IF s[1] = "+" THEN ParseNat(Tail(s)) ELSE ParseNat(s)

\* C9: there is exactly one pin for each directory y/country/city whose y
\* parses as an integer, with that year, country, city, the number of files
\* and lat = lng = 0; a folder create-folder has made appears as a pin
C9_PinForEveryIntegerYear ==
    LET pins == get_all_pins(dirs, files)
        expected == {q \in dirs : Len(q) = 3 /\ ParsesAsInt(q[1])}
    IN  /\ DOMAIN pins = expected
        /\ \A q \in expected \cap DOMAIN pins :
              /\ pins[q].year = IntOf(q[1])
              /\ pins[q].country = q[2]
              /\ pins[q].city = q[3]
              /\ pins[q].imageCount = Cardinality(FilesIn(files, q))
              /\ pins[q].lat = 0
              /\ pins[q].lng = 0
        /\ ((req.op = "create_folder" /\ resp.status = 200) => ReqFolder \in DOMAIN pins)

\* every call so far started when no other call was in flight
NoOverlap == \A p \in Procs : procs[p].alone

\* the number of regular files is what it was before the calls
SameFileCount == Cardinality(DOMAIN files) = Cardinality(DOMAIN prevFiles)

\* C10 as stated: under any interleaving of moveFolder and sortDate calls no
\* rename lands on another file, so the number of regular files stays the same
C10_NoFileLost == SameFileCount

\* C10 amended: the number of regular files, and what they hold, stays the
\* same as long as each call started after the calls before it had finished
C10_NoFileLostWithoutOverlap ==
    NoOverlap =>
        /\ SameFileCount
        /\ \A q \in DOMAIN prevFiles :
              Cardinality({x \in DOMAIN files : files[x] = prevFiles[q]})
                  = Cardinality({x \in DOMAIN prevFiles : prevFiles[x] = prevFiles[q]})

\* C10 witness: two moves into the same folder, one after the other, both done
C10_Witness ==
    /\ NoOverlap
    /\ \A p \in Procs : /\ procs[p].pc = "done"
                        /\ procs[p].op = "moveFolder"
                        /\ procs[p].exc = "none"
    /\ \E p, o \in Procs : procs[p].src # procs[o].src

====
